---- MODULE Spec2Model ----
(***************************************************************************)
(* Model of the calendrical engine of lunar-almanac-backend: the two       *)
(* Celtic date mappers, the lunar phase classifier and the single-date     *)
(* lunar phase endpoints of both server copies, and the file-backed store  *)
(* of custom events of the prod_server copy.                               *)
(*                                                                         *)
(* The calendrical operations are pure functions of their request; the     *)
(* state is the request being served, the response it got, the activation  *)
(* of the handler while it runs, the file custom_events.json and the       *)
(* threads of the server's pool that run store handlers side by side.  A   *)
(* calendar date is the record [year, month, day]; date arithmetic goes    *)
(* through the proleptic Gregorian ordinal (day 1 = 0001-01-01, a Monday), *)
(* as datetime does.                                                       *)
(***************************************************************************)
EXTENDS Integers, Sequences, FiniteSets, TLC

VARIABLES request, response, frame, custom_events_file, workers

vars == <<request, response, frame, custom_events_file, workers>>

\* ------------------------------------------------------------------ bounds
\* Years whose dates are mapped by the Celtic schemes.
MinYear == 2000
MaxYear == 2030
\* The year whose month ends the lunar requests start from.
LunarYear == 2024
\* Longest range asked of the classifier: end - start in days, and how far an
\* inverted range may end before its start.
MaxSpan == 2
MaxInverted == 1
\* Whole-day counts since the previous new moon the ephemeris may hand in:
\* 0..MaxCount.
MaxCount == 30
\* Whole-day counts handed to the age computation on its own run from
\* -MaxBack to MaxCount.
MaxBack == 30
\* Illumination is sampled every IllumStep tenths of a percent.
IllumStep == 5
\* Largest moon age looked up directly, in hundredths of a day.
MaxAge == 3100
\* Longest zodiac table served.
MaxSigns == 3
\* Instants are counted in ticks, TicksPerSecond to the second.
TicksPerSecond == 4
\* The clock is read up to MaxNow ticks after 23:59:58 of Dec 31 of LunarYear,
\* and the nearer moon comes up to MaxWait ticks after a whole number of days.
MaxNow == 9
MaxWait == 5

\* -------------------------------------------------------- program constants
\* The synodic month 29.53, in hundredths of a day.
SynodicMonth == 2953
\* moon.phase is a percentage: 0 to 100.0, here in tenths of a percent.
MaxIllum == 1000

\* ------------------------------------------------------------------- dates
Date(y, m, d) == [year |-> y, month |-> m, day |-> d]

\* is_leap_year(year)
is_leap_year(year) == (year % 4 = 0 /\ year % 100 # 0) \/ (year % 400 = 0)

\* _is_leap_year(y) of the solstice-anchored scheme
_is_leap_year(y) == (y % 4 = 0) /\ (y % 100 # 0 \/ y % 400 = 0)

DaysInMonth(y, m) ==
    IF m = 2 THEN (IF is_leap_year(y) THEN 29 ELSE 28)
    ELSE IF m \in {4, 6, 9, 11} THEN 30 ELSE 31

RECURSIVE DaysBeforeMonth(_, _)
DaysBeforeMonth(y, m) ==
    IF m = 1 THEN 0 ELSE DaysBeforeMonth(y, m - 1) + DaysInMonth(y, m - 1)

DaysBeforeYear(y) ==
    (y - 1) * 365 + ((y - 1) \div 4) - ((y - 1) \div 100) + ((y - 1) \div 400)

\* date.toordinal(): the number the date type compares and subtracts by
Ordinal(dt) == DaysBeforeYear(dt.year) + DaysBeforeMonth(dt.year, dt.month) + dt.day

\* date.weekday(): Monday is 0
Weekday(ord) == (ord + 6) % 7

DateLE(a, b) == Ordinal(a) <= Ordinal(b)

IsDate(y, m, d) == m \in 1..12 /\ d >= 1 /\ d <= DaysInMonth(y, m)

DatesOf(years) ==
    {Date(y, m, d) : <<y, m, d>> \in
        {t \in years \X (1..12) \X (1..31) : IsDate(t[1], t[2], t[3])}}

CelticDates == DatesOf(MinYear..MaxYear)

\* --------------------------------------------- Scheme B: _celtic_month_for
CycleOf(dt) ==
    IF DateLE(Date(dt.year, 12, 23), dt) THEN dt.year + 1 ELSE dt.year

Range(name, start, end) == [name |-> name, start |-> start, end |-> end]

Ranges(cycle) ==
    << Range("Nivis",   Date(cycle - 1, 12, 23), Date(cycle,  1, 19)),
       Range("Janus",   Date(cycle,  1, 20),     Date(cycle,  2, 16)),
       Range("Brigid",  Date(cycle,  2, 17),     Date(cycle,  3, 16)),
       Range("Flora",   Date(cycle,  3, 17),     Date(cycle,  4, 13)),
       Range("Maia",    Date(cycle,  4, 14),     Date(cycle,  5, 11)),
       Range("Juno",    Date(cycle,  5, 12),     Date(cycle,  6,  8)),
       Range("Solis",   Date(cycle,  6,  9),     Date(cycle,  7,  6)),
       Range("Terra",   Date(cycle,  7,  8),     Date(cycle,  8,  4)),
       Range("Lugh",    Date(cycle,  8,  4),     Date(cycle,  8, 31)),
       Range("Pomona",  Date(cycle,  9,  1),     Date(cycle,  9, 28)),
       Range("Autumna", Date(cycle,  9, 29),     Date(cycle, 10, 26)),
       Range("Eira",    Date(cycle, 10, 27),     Date(cycle, 11, 23)),
       Range("Aether",  Date(cycle, 11, 24),     Date(cycle, 12, 21)),
       Range("Mirabilis", Date(cycle, 12, 22),
             Date(cycle, 12, IF _is_leap_year(cycle) THEN 23 ELSE 22)) >>

InRange(r, dt) == DateLE(r.start, dt) /\ DateLE(dt, r.end)

\* The indices of the declared ranges that contain dt.
Containing(dt) ==
    LET ranges == Ranges(CycleOf(dt))
    IN  {i \in 1..Len(ranges) : InRange(ranges[i], dt)}

\* The result names the return statement taken: the loop's or the fallback.
_celtic_month_for(dt) ==
    LET ranges == Ranges(CycleOf(dt))
        hits   == Containing(dt)
    IN  IF hits = {}
        THEN [month |-> "Nivis", day |-> 1, via |-> "fallback"]
        ELSE LET i == CHOOSE k \in hits : \A j \in hits : k <= j
             IN  [month |-> ranges[i].name,
                  day   |-> Ordinal(dt) - Ordinal(ranges[i].start) + 1,
                  via   |-> "range"]

\* ------------------------------ Scheme A: celtic_date_for_gregorian
\* (compute_celtic_date in the other server copy is the same code)
celtic_months ==
    << "Yule", "Janus", "Brigid", "Flora", "Maya", "Juno",
       "Solis", "Terra", "Lugh", "Pomona", "Autumma", "Frost", "Aether" >>

\* A start that moves a whole week on when the solstice is a Monday.
get_celtic_year_start_NoModulo(year) ==
    LET solstice          == Ordinal(Date(year - 1, 12, 21))
        days_until_monday == 7 - Weekday(solstice)
    IN  solstice + days_until_monday

\* The Monday on or after Dec 21 of year - 1, as an ordinal.
get_celtic_year_start(year) ==
    LET solstice          == Ordinal(Date(year - 1, 12, 21))
        days_until_monday == (7 - Weekday(solstice)) % 7
    IN  solstice + days_until_monday

\* A mapper that never moves on to the next year's cycle.
CycleStart_NoRollover(gregorian_date) ==
    get_celtic_year_start(gregorian_date.year)

\* The cycle start the mapper measures from: next year's once Dec 21 is reached.
CycleStart(gregorian_date) ==
    LET year == gregorian_date.year
    IN  IF DateLE(Date(year, 12, 21), gregorian_date)
        THEN get_celtic_year_start(year + 1)
        ELSE get_celtic_year_start(year)

\* celtic_months[month_index] with a list's negative indexing: -1 is the last
\* entry, an index below -len raises IndexError.  day None is written 0.
MonthAt(month_index, day) ==
    LET n == Len(celtic_months)
    IN  IF month_index >= 0
        THEN [month |-> celtic_months[month_index + 1], day |-> day]
        ELSE IF month_index >= 0 - n
        THEN [month |-> celtic_months[n + month_index + 1], day |-> day]
        ELSE [month |-> "IndexError", day |-> 0]

\* A mapper that tests the overflow of the month index before the special days.
celtic_date_for_gregorian_OverflowFirst(gregorian_date) ==
    LET year             == gregorian_date.year
        days_since_start == Ordinal(gregorian_date) - CycleStart(gregorian_date)
        month_index      == days_since_start \div 28
        day              == (days_since_start % 28) + 1
    IN  IF month_index >= Len(celtic_months)
        THEN [month |-> "Invalid Date", day |-> 0]
        ELSE IF is_leap_year(year) /\ days_since_start = 8
        THEN [month |-> "Leap Day", day |-> 1]
        ELSE IF days_since_start = 364
        THEN [month |-> "Floating Day", day |-> 1]
        ELSE MonthAt(month_index, day)

\* A mapper without the test for the leap day.
celtic_date_for_gregorian_NoLeapDay(gregorian_date) ==
    LET days_since_start == Ordinal(gregorian_date) - CycleStart(gregorian_date)
        month_index      == days_since_start \div 28
        day              == (days_since_start % 28) + 1
    IN  IF days_since_start = 364
        THEN [month |-> "Floating Day", day |-> 1]
        ELSE IF month_index >= Len(celtic_months)
        THEN [month |-> "Invalid Date", day |-> 0]
        ELSE MonthAt(month_index, day)

celtic_date_for_gregorian(gregorian_date) ==
    LET year             == gregorian_date.year
        days_since_start == Ordinal(gregorian_date) - CycleStart(gregorian_date)
        month_index      == days_since_start \div 28
        day              == (days_since_start % 28) + 1
    IN  IF is_leap_year(year) /\ days_since_start = 8
        THEN [month |-> "Leap Day", day |-> 1]
        ELSE IF days_since_start = 364
        THEN [month |-> "Floating Day", day |-> 1]
        ELSE IF month_index >= Len(celtic_months)
        THEN [month |-> "Invalid Date", day |-> 0]
        ELSE MonthAt(month_index, day)

\* ---------------------------------------------------- ephemeris adapter
\* What ephem returns for a date: the whole days since the previous new moon
\* (current_date - prev_new_moon.datetime().date()).days and moon.phase, the
\* illumination, in tenths of a percent.  The library is outside the
\* repository: any reading in the bounds may come back.
Counts == 0..MaxCount

Illums == {i * IllumStep : i \in 0..(MaxIllum \div IllumStep)}

Reading(days, illumination) == [days |-> days, illumination |-> illumination]

Readings == {Reading(n, il) : n \in Counts, il \in Illums}

\* The readings a range request is served from: illumination is only copied.
RangeReadings == {Reading(n, il) : n \in Counts, il \in {0, MaxIllum}}

\* ------------------------------------------------- calculate_lunar_phases
\* Ages and table bounds are in hundredths of a day; icons are written as
\* their code points.
Row(start, end, name, icon) ==
    [start |-> start, end |-> end, name |-> name, icon |-> icon]

\* The table with the Full Moon row widened downward by a day.
phase_mapping_WideFullMoon ==
    << Row(0,    150,  "New Moon",        "U+1F311"),
       Row(150,  750,  "Waxing Crescent", "U+1F312"),
       Row(750,  1050, "First Quarter",   "U+1F313"),
       Row(1050, 1350, "Waxing Gibbous",  "U+1F314"),
       Row(1250, 1650, "Full Moon",       "U+1F315"),
       Row(1650, 2150, "Waning Gibbous",  "U+1F316"),
       Row(2150, 2450, "Last Quarter",    "U+1F317"),
       Row(2450, 2953, "Waning Crescent", "U+1F318"),
       Row(2953, 3050, "New Moon",        "U+1F311") >>

\* A table whose third row repeats the name of the fourth.
phase_mapping_NoFirstQuarter ==
    << Row(0, 150, "New Moon", <<127761>>),
       Row(150, 750, "Waxing Crescent", <<127762>>),
       Row(750, 1050, "Waxing Gibbous", <<127764>>),
       Row(1050, 1350, "Waxing Gibbous", <<127764>>),
       Row(1350, 1650, "Full Moon", <<127765>>),
       Row(1650, 2150, "Waning Gibbous", <<127766>>),
       Row(2150, 2450, "Last Quarter", <<127767>>),
       Row(2450, 2953, "Waning Crescent", <<127768>>),
       Row(2953, 3050, "New Moon", <<127761>>) >>

phase_mapping ==
    << Row(0,    150,  "New Moon",        "U+1F311"),
       Row(150,  750,  "Waxing Crescent", "U+1F312"),
       Row(750,  1050, "First Quarter",   "U+1F313"),
       Row(1050, 1350, "Waxing Gibbous",  "U+1F314"),
       Row(1350, 1650, "Full Moon",       "U+1F315"),
       Row(1650, 2150, "Waning Gibbous",  "U+1F316"),
       Row(2150, 2450, "Last Quarter",    "U+1F317"),
       Row(2450, 2953, "Waning Crescent", "U+1F318"),
       Row(2953, 3050, "New Moon",        "U+1F311") >>

\* A remainder that takes the sign of the count, as fmod does.
moon_age_Truncated(days) ==
    IF days >= 0
    THEN (days * 100) % SynodicMonth
    ELSE 0 - (((0 - days) * 100) % SynodicMonth)

\* days % 29.53: the result of % takes the sign of the divisor.
moon_age(days) == (days * 100) % SynodicMonth

\* A test that gives a boundary age to the row it closes.
Matching_RightClosed(age) ==
    {i \in 1..Len(phase_mapping) :
        phase_mapping[i].start < age /\ age <= phase_mapping[i].end}

\* The rows of the table whose test start <= moon_age < end is true.
Matching(age) ==
    {i \in 1..Len(phase_mapping) :
        phase_mapping[i].start <= age /\ age < phase_mapping[i].end}

\* The for loop over phase_mapping: the first row that matches, if any.
PhaseLookup(age) ==
    LET hits == Matching(age)
    IN  IF hits = {}
        THEN [phase_name |-> "Unknown Phase", graphic |-> "U+2753"]
        ELSE LET i == CHOOSE k \in hits : \A j \in hits : k <= j
             IN  [phase_name |-> phase_mapping[i].name,
                  graphic    |-> phase_mapping[i].icon]

\* date.isoformat(): YYYY-MM-DD, as the sequence of its characters.
isoformat(dt) ==
    << dt.year \div 1000, (dt.year \div 100) % 10, (dt.year \div 10) % 10,
       dt.year % 10, "-", dt.month \div 10, dt.month % 10, "-",
       dt.day \div 10, dt.day % 10 >>

\* f"{phase_name} phase with {illumination:.2f}% illumination."
Description(phase_name, illumination) ==
    << phase_name, " phase with ", illumination, "% illumination." >>

\* current_date += timedelta(days=1)
NextDay(dt) ==
    IF dt.day < DaysInMonth(dt.year, dt.month)
    THEN Date(dt.year, dt.month, dt.day + 1)
    ELSE IF dt.month < 12
    THEN Date(dt.year, dt.month + 1, 1)
    ELSE Date(dt.year + 1, 1, 1)

\* One pass of the loop body: the sample appended for current_date.
Sample(current_date, reading) ==
    LET hit == PhaseLookup(moon_age(reading.days))
    IN  [date        |-> isoformat(current_date),
         phase       |-> hit.phase_name,
         graphic     |-> hit.graphic,
         description |-> Description(hit.phase_name, reading.illumination)]

\* The activation of calculate_lunar_phases: its locals while it runs, and
\* the list it returned while its caller still holds it.
NoFrame == [pc |-> "none"]

\* A call that puts an inverted range in order before it loops.
Call_Sorted(start_date, end_date) ==
    IF DateLE(start_date, end_date)
    THEN [pc |-> "loop", current_date |-> start_date, end_date |-> end_date,
          lunar_phases |-> << >>]
    ELSE [pc |-> "loop", current_date |-> end_date, end_date |-> start_date,
          lunar_phases |-> << >>]

\* lunar_phases = []; current_date = start_date
Call(start_date, end_date) ==
    [pc |-> "loop", current_date |-> start_date, end_date |-> end_date,
     lunar_phases |-> << >>]

\* A loop test that stops before the end date.
LoopContinues_EndExcluded(current_date, end_date) ==
    Ordinal(current_date) < Ordinal(end_date)

\* while current_date <= end_date
LoopContinues(current_date, end_date) == DateLE(current_date, end_date)

\* dynamic_moon_phases: phases = get_moon_phases(..) or []; return phases
DynamicMoonPhasesReply(phases) == [raised |-> "", phases |-> phases]

\* get_dynamic_moon_phase of prod_server:
\* return result[0] if result else {"error": ...}
ApiLunarPhaseReply(result) ==
    IF result # << >>
    THEN result[1]
    ELSE [error |-> "No phase data for that date."]

\* ------------------------------------ GET /api/lunar-phase, main.py copy
\* The phase name and the icon are both taken from the illumination; the
\* icon is the character at int(moon_phase // 3.7) of an 8-character string.
\* Illumination is in tenths of a percent: 7.4 is 74 and 3.7 is 37.
moon_icons ==
    << "U+1F311", "U+1F312", "U+1F313", "U+1F314",
       "U+1F315", "U+1F316", "U+1F317", "U+1F318" >>

get_dynamic_moon_phase_main(day, month, year, reading) ==
    LET date_str   == isoformat(Date(year, month, day))
        moon_phase == reading.illumination
        phase_name ==
            IF 0 <= moon_phase /\ moon_phase < 74 THEN "New Moon"
            ELSE IF 74 <= moon_phase /\ moon_phase < 148 THEN "First Quarter"
            ELSE IF 148 <= moon_phase /\ moon_phase < 221 THEN "Full Moon"
            ELSE "Last Quarter"
        index      == moon_phase \div 37
    IN  IF index < Len(moon_icons)
        THEN [error      |-> "",
              date       |-> date_str,
              moon_phase |-> phase_name,
              graphic    |-> moon_icons[index + 1]]
        ELSE [error |-> "string index out of range"]

\* ----------------------------------------------------- get_zodiac_by_date
\* datetime.fromisoformat(..).date() of a YYYY-MM-DD string
fromisoformat(str) ==
    Date(str[1] * 1000 + str[2] * 100 + str[3] * 10 + str[4],
         str[6] * 10 + str[7],
         str[9] * 10 + str[10])

\* (d.month, d.day)
MonthDay(dt) == <<dt.month, dt.day>>

\* a <= b on 2-tuples: by the first entry, then by the second
TupleLE(a, b) == a[1] < b[1] \/ (a[1] = b[1] /\ a[2] <= b[2])

\* An entry of calendar_data["zodiac"]; its dates are stored as strings.
Sign(name, start, end) ==
    [name              |-> name,
     start_date        |-> isoformat(start),
     end_date          |-> isoformat(end),
     symbolism         |-> <<"symbolism", name>>,
     animal            |-> <<"animal", name>>,
     mythical_creature |-> <<"mythical_creature", name>>]

\* A test that leaves the end day out of a range.
SignMatches_EndExcluded(sign, query_month_day) ==
    LET start_month_day == MonthDay(fromisoformat(sign.start_date))
        end_month_day   == MonthDay(fromisoformat(sign.end_date))
    IN  IF TupleLE(start_month_day, end_month_day)
        THEN /\ TupleLE(start_month_day, query_month_day)
             /\ TupleLE(query_month_day, end_month_day)
             /\ query_month_day # end_month_day
        ELSE \/ TupleLE(start_month_day, query_month_day)
             \/ (/\ TupleLE(query_month_day, end_month_day)
                 /\ query_month_day # end_month_day)

\* A test that asks a wrapped range for both of its conditions.
SignMatches_WrapAnd(sign, query_month_day) ==
    LET start_month_day == MonthDay(fromisoformat(sign.start_date))
        end_month_day   == MonthDay(fromisoformat(sign.end_date))
    IN  IF TupleLE(start_month_day, end_month_day)
        THEN /\ TupleLE(start_month_day, query_month_day)
             /\ TupleLE(query_month_day, end_month_day)
        ELSE /\ TupleLE(start_month_day, query_month_day)
             /\ TupleLE(query_month_day, end_month_day)

\* The body of the loop over the signs: the two containment tests.
SignMatches(sign, query_month_day) ==
    LET start_month_day == MonthDay(fromisoformat(sign.start_date))
        end_month_day   == MonthDay(fromisoformat(sign.end_date))
    IN  IF TupleLE(start_month_day, end_month_day)
        THEN /\ TupleLE(start_month_day, query_month_day)
             /\ TupleLE(query_month_day, end_month_day)
        ELSE \/ TupleLE(start_month_day, query_month_day)
             \/ TupleLE(query_month_day, end_month_day)

\* The function ends without a return statement: the caller gets None.
ZodiacNone == [raised |-> "", returned |-> "None"]

\* A handler that answers 404 when no sign matches, as /zodiac/by-name does.
ZodiacNoMatch_Raises == [raised |-> "HTTPException", returned |-> "nothing"]

\* What the handler does once the loop has ended without a match.
ZodiacNoMatch == ZodiacNone

\* A handler that keeps looking after a match and answers with the last one.
get_zodiac_by_date_LastMatch(date, zodiac) ==
    LET query_date      == fromisoformat(date)
        query_month_day == MonthDay(query_date)
        hits == {i \in 1..Len(zodiac) : SignMatches(zodiac[i], query_month_day)}
    IN  IF hits = {}
        THEN ZodiacNoMatch
        ELSE LET i == CHOOSE k \in hits : \A j \in hits : k >= j
             IN  [raised            |-> "",
                  returned          |-> "dict",
                  date              |-> date,
                  zodiac_sign       |-> zodiac[i].name,
                  symbolism         |-> zodiac[i].symbolism,
                  animal            |-> zodiac[i].animal,
                  mythical_creature |-> zodiac[i].mythical_creature]

\* get_zodiac_by_date(date), reading the table zodiac
get_zodiac_by_date(date, zodiac) ==
    LET query_date      == fromisoformat(date)
        query_month_day == MonthDay(query_date)
        hits == {i \in 1..Len(zodiac) : SignMatches(zodiac[i], query_month_day)}
    IN  IF hits = {}
        THEN ZodiacNoMatch
        ELSE LET i == CHOOSE k \in hits : \A j \in hits : k <= j
             IN  [raised            |-> "",
                  returned          |-> "dict",
                  date              |-> date,
                  zodiac_sign       |-> zodiac[i].name,
                  symbolism         |-> zodiac[i].symbolism,
                  animal            |-> zodiac[i].animal,
                  mythical_creature |-> zodiac[i].mythical_creature]

\* ------------------------------------------- the zodiac tables served
\* calendar_data["zodiac"] is read from a data file: any table may be there.
SignNames == <<"Birch", "Rowan", "Ash", "Alder", "Willow">>

\* The table whose i-th sign runs from pairs[i][1] to pairs[i][2].
Named(pairs) ==
    [i \in 1..Len(pairs) |-> Sign(SignNames[i], pairs[i][1], pairs[i][2])]

\* Tables of any ranges between a few dates: ranges that wrap, overlap or
\* leave gaps among them.
BoundaryDates ==
    {Date(LunarYear, 1, 19), Date(LunarYear, 6, 15), Date(LunarYear, 12, 22)}

AnyTables ==
    {Named(pairs) : pairs \in
        UNION {[1..k -> BoundaryDates \X BoundaryDates] : k \in 1..MaxSigns}}

\* The dates such a table is asked about.
AnyQueries ==
    {Date(LunarYear, 1, 10), Date(LunarYear, 1, 19), Date(LunarYear, 1, 20),
     Date(LunarYear, 2, 29), Date(LunarYear, 6, 15), Date(LunarYear, 12, 21),
     Date(LunarYear, 12, 22), Date(LunarYear, 12, 25)}

\* date - timedelta(days=1), within a year
PrevDay(dt) ==
    IF dt.day > 1
    THEN Date(dt.year, dt.month, dt.day - 1)
    ELSE Date(dt.year, dt.month - 1, DaysInMonth(dt.year, dt.month - 1))

\* Tables that divide the year table_year at some of these days: each sign
\* starts at one of them and ends the day before the next one, the last one
\* running over the year end; the signs are listed in any order.
CutDays == {<<1, 20>>, <<3, 1>>, <<6, 10>>, <<12, 22>>}

NextCut(cut, cuts) ==
    LET later == {c \in cuts : c # cut /\ TupleLE(cut, c)}
        from  == IF later = {} THEN cuts ELSE later
    IN  CHOOSE c \in from : \A d \in from : TupleLE(c, d)

DividedTable(table_year, order) ==
    LET cuts == {order[i] : i \in 1..Len(order)}
    IN  Named([i \in 1..Len(order) |->
                 LET next == NextCut(order[i], cuts)
                 IN  << Date(table_year, order[i][1], order[i][2]),
                        PrevDay(Date(table_year, next[1], next[2])) >>])

DividedTables ==
    {DividedTable(table_year, order) :
        table_year \in {LunarYear - 1, LunarYear},
        order \in {o \in UNION {[1..k -> CutDays] : k \in 1..MaxSigns} :
                      \A i, j \in 1..Len(o) : i # j => o[i] # o[j]}}

\* ------------------------------------------------------ estimate_eclipses
\* An instant is a number of ticks since the midnight that begins Dec 31 of
\* LunarYear; ephem.Date(..).datetime() is its date and time of day.
SecondsPerDay == 86400

TicksPerDay == SecondsPerDay * TicksPerSecond

RECURSIVE AddDays(_, _)
AddDays(dt, n) == IF n = 0 THEN dt ELSE AddDays(NextDay(dt), n - 1)

datetime(instant) ==
    LET seconds == (instant % TicksPerDay) \div TicksPerSecond
    IN  [date   |-> AddDays(Date(LunarYear, 12, 31), instant \div TicksPerDay),
         hour   |-> seconds \div 3600,
         minute |-> (seconds % 3600) \div 60,
         second |-> seconds % 60,
         tick   |-> instant % TicksPerSecond]

\* A format that keeps the date only.
strftime_DateOnly(dtm) ==
    isoformat(dtm.date) \o << " ", 0, 0, ":", 0, 0, ":", 0, 0 >>

\* strftime("%Y-%m-%d %H:%M:%S"): the fraction of the second is not written.
strftime(dtm) ==
    isoformat(dtm.date) \o
        << " ", dtm.hour \div 10, dtm.hour % 10,
           ":", dtm.minute \div 10, dtm.minute % 10,
           ":", dtm.second \div 10, dtm.second % 10 >>

\* estimate_eclipses(), with what ephem.next_full_moon(now) and
\* ephem.next_new_moon(now) gave.
estimate_eclipses(next_full_moon, next_new_moon) ==
    LET next_full_moon_date == datetime(next_full_moon)
        next_new_moon_date  == datetime(next_new_moon)
        lunar_eclipse_event ==
            [type        |-> "lunar-eclipse",
             title       |-> "Lunar Eclipse",
             description |-> "Shadow and light embrace in celestial dance, a moment between worlds.",
             date        |-> strftime(next_full_moon_date)]
        solar_eclipse_event ==
            [type        |-> "solar-eclipse",
             title       |-> "Solar Eclipse",
             description |-> "A rare solar eclipse is on the horizon.",
             date        |-> strftime(next_new_moon_date)]
    IN  << lunar_eclipse_event, solar_eclipse_event >>

\* The instants ephem.now() may give.
Nows == {(SecondsPerDay - 2) * TicksPerSecond + n : n \in 0..MaxNow}

\* How long after now the nearer of the two moons comes: within seconds,
\* or as long after one day or after fourteen days.
Waits == {d * TicksPerDay + t : d \in {0, 1, 14}, t \in 0..MaxWait}

\* From a full moon to the next new moon, and from a new moon to the next
\* full moon: half a synodic month, 14 days 18 hours 22 minutes.
HalfMonth == ((14 * 24 + 18) * 60 + 22) * 60 * TicksPerSecond

\* ------------------------------------------ dates_match, main.py copy
\* The named-full-moon linker of main.py stands inside dates_match: the body
\* of the function is the linker's (it reads start_date and end_date, runs
\* calculate_lunar_phases and annotates the samples) followed by the
\* comparison of date_str1 with date_str2.

\* The names bound at the module level of main.py.
ModuleNames ==
    {"BASE_DIR", "BaseHTTPMiddleware", "DATA_FILE", "DATA_PATH_CANDIDATES",
     "FastAPI", "FileResponse", "HTTPException", "JSONResponse",
     "NoCacheMiddleware", "Request", "Response", "StaticFiles",
     "_find_data_file", "add_custom_event", "app", "calculate_lunar_phases",
     "calendar_data", "celtic_today", "compute_celtic_date", "date",
     "dates_match", "datetime", "delete_custom_event", "dynamic_moon_phases",
     "eclipse_events", "edit_custom_event", "ephem", "estimate_eclipses",
     "filter_lunar_phases", "get_calendar", "get_calendar_data",
     "get_celtic_year_start", "get_custom_events", "get_dynamic_moon_phase",
     "get_events", "get_festivals", "get_festivals_linked_to_phases",
     "get_lunar_phase_poetry", "get_lunar_phases", "get_lunar_visuals",
     "get_month", "get_moon_phases", "get_national_holidays",
     "get_random_moon_poem", "get_upcoming_events", "get_zodiac_by_date",
     "get_zodiac_by_name", "get_zodiac_sign", "get_zodiac_sign_details",
     "is_leap_year", "json", "list_all_zodiac_signs", "load_calendar_data",
     "moon_descriptions", "moon_poems", "os", "random", "root",
     "save_calendar_data", "timedelta", "zodiac_insights"}

\* Reading a name inside a function: a local or a module-level name is
\* bound, any other name raises NameError.
Bound(name, locals) == name \in locals \cup ModuleNames

\* dates_match(date_str1, date_str2).  Its first statement,
\*     start = datetime.fromisoformat(start_date).date()
\* reads start_date, which is neither a parameter nor a module-level name:
\* the call ends there with NameError, and no statement after it runs.
dates_match(date_str1, date_str2) ==
    CASE ~Bound("start_date", {"date_str1", "date_str2"}) ->
            [raised |-> "NameError", name |-> "start_date"]

\* An entry of calendar_data["full_moons"].
NamedFullMoon(dt, name) ==
    [date        |-> isoformat(dt),
     name        |-> name,
     description |-> <<"description", name>>,
     poem        |-> <<"poem", name>>]

\* ---------------------------------------------------- custom events store
\* Most events the store is let grow to.
MaxEvents == 3

EventIds    == {"e1", "e2"}
EventDates  == {"2025-05-01", "2025-05-02"}
EventTitles == {"Picnic", "Concert"}

\* evt.dict() of a CustomEvent whose optional fields are left to default.
CustomEvent(id, date, title) ==
    [id |-> id, date |-> date, title |-> title,
     type |-> "None", notes |-> "None", recurring |-> FALSE]

CustomEvents ==
    {CustomEvent(id, date, title) :
        id \in EventIds, date \in EventDates, title \in EventTitles}

\* custom_events.json: not there yet; holding the json of a list; opened
\* for writing and cut to no bytes; holding a dump written over a longer
\* dump, whose tail is left behind it.
NoFile         == [state |-> "missing", events |-> << >>]
Written(events) == [state |-> "json", events |-> events]
Truncated      == [state |-> "truncated", events |-> << >>]
Overwritten    == [state |-> "overwritten", events |-> << >>]

\* json.load of the file; FileNotFoundError and JSONDecodeError give [].
_load_custom_events(file) ==
    IF file.state = "json" THEN file.events ELSE << >>

\* open(.., "w"); json.dump(events, f); close
_save_custom_events(events) == Written(events)

\* A handler that appends without removing the event of the same id.
create_custom_event_KeepsOld(events, evt) ==
    [events |-> Append(events, evt),
     reply  |-> [ok |-> TRUE, saved |-> evt.id]]

\* The list create_custom_event saves and what it returns.
create_custom_event(events, evt) ==
    [events |-> Append(SelectSeq(events, LAMBDA e : e.id # evt.id), evt),
     reply  |-> [ok |-> TRUE, saved |-> evt.id]]

\* The list update_custom_event saves and what it returns: the first event
\* with the id of evt or with the date of the path is replaced by evt.
update_custom_event(events, date, evt) ==
    LET hits == {i \in 1..Len(events) :
                    \/ (evt.id # "" /\ events[i].id = evt.id)
                    \/ events[i].date = date}
        updated == hits # {}
        i == CHOOSE k \in hits : \A j \in hits : k <= j
    IN  [events |-> IF updated THEN [events EXCEPT ![i] = evt]
                               ELSE Append(events, evt),
         reply  |-> [ok |-> TRUE, updated |-> updated]]

\* The list delete_custom_event saves and what it returns.
delete_custom_event(events, date) ==
    LET kept == SelectSeq(events, LAMBDA e : e.date # date)
    IN  [events |-> kept,
         reply  |-> [ok |-> TRUE, deleted |-> Len(events) - Len(kept)]]

\* The threads of the pool that run two store handlers side by side.
Workers == {"w1", "w2"}

IdleWorkers == [w \in Workers |-> [pc |-> "idle"]]

\* ------------------------------------------------------------------ state
NoRequest  == [op |-> "none"]
NoResponse == [op |-> "none"]

Init ==
    /\ request = NoRequest
    /\ response = NoResponse
    /\ frame = NoFrame
    /\ custom_events_file = NoFile
    /\ workers = IdleWorkers

Idle == request = NoRequest

\* The handler of the request has returned its response.
Returned == request # NoRequest /\ response # NoResponse

\* The response has been delivered: the server holds nothing of the request.
Respond ==
    /\ Returned
    /\ request' = NoRequest
    /\ response' = NoResponse
    /\ frame' = NoFrame
    /\ workers' = IdleWorkers
    /\ UNCHANGED custom_events_file

\* GET /celtic-date?date=dt
ApiCelticDate ==
    /\ Idle
    /\ \E dt \in CelticDates :
          /\ request' = [op |-> "_celtic_month_for", dt |-> dt]
          /\ response' = _celtic_month_for(dt)
    /\ UNCHANGED frame
    /\ UNCHANGED <<custom_events_file, workers>>

NextCelticB == ApiCelticDate \/ Respond

SpecCelticB == Init /\ [][NextCelticB]_vars

\* GET /celtic-today, for any day the clock may show
CelticToday ==
    /\ Idle
    /\ \E today \in CelticDates :
          /\ request' = [op |-> "celtic_date_for_gregorian", dt |-> today]
          /\ response' = celtic_date_for_gregorian(today)
    /\ UNCHANGED frame
    /\ UNCHANGED <<custom_events_file, workers>>

NextCelticA == CelticToday \/ Respond

SpecCelticA == Init /\ [][NextCelticA]_vars

\* The dates lunar requests start from: the last two days of a month of each
\* length, February and the year's last month among them.
LunarDates ==
    {dt \in DatesOf({LunarYear}) :
        /\ dt.month \in {2, 4, 12}
        /\ dt.day >= DaysInMonth(dt.year, dt.month) - 1}

\* The end dates of a request that starts on start.
EndDates(start) ==
    {dt \in DatesOf({LunarYear - 1, LunarYear, LunarYear + 1}) :
        /\ Ordinal(dt) - Ordinal(start) >= 0 - MaxInverted
        /\ Ordinal(dt) - Ordinal(start) <= MaxSpan}

\* GET /dynamic-moon-phases?start_date=..&end_date=..: the endpoint calls
\* calculate_lunar_phases(start_date, end_date).
DynamicMoonPhases ==
    /\ Idle
    /\ \E start_date \in LunarDates :
       \E end_date \in EndDates(start_date) :
          /\ request' = [op |-> "dynamic_moon_phases",
                         start_date |-> start_date, end_date |-> end_date]
          /\ frame' = Call(start_date, end_date)
    /\ UNCHANGED response
    /\ UNCHANGED <<custom_events_file, workers>>

\* GET /api/lunar-phase?day=..&month=..&year=.. on the prod_server copy, for
\* a day, month and year that make a date:
\* target = date(year, month, day); calculate_lunar_phases(target, target).
ApiLunarPhaseProd ==
    /\ Idle
    /\ \E dt \in LunarDates :
          /\ request' = [op |-> "api_lunar_phase", server |-> "prod_server",
                         day |-> dt.day, month |-> dt.month, year |-> dt.year]
          /\ frame' = Call(dt, dt)
    /\ UNCHANGED response
    /\ UNCHANGED <<custom_events_file, workers>>

\* One pass of the while loop: the ephemeris is read for current_date, the
\* sample is appended and current_date moves on by a day.
LoopPass ==
    /\ frame.pc = "loop"
    /\ LoopContinues(frame.current_date, frame.end_date)
    /\ \E reading \in (IF request.op = "api_lunar_phase"
                       THEN Readings ELSE RangeReadings) :
          frame' = [frame EXCEPT
                       !.lunar_phases = Append(@, Sample(frame.current_date, reading)),
                       !.current_date = NextDay(@)]
    /\ UNCHANGED <<request, response>>
    /\ UNCHANGED <<custom_events_file, workers>>

\* The loop test fails: return lunar_phases, and the caller answers with it.
LoopReturn ==
    /\ frame.pc = "loop"
    /\ ~LoopContinues(frame.current_date, frame.end_date)
    /\ frame' = [pc |-> "returned", lunar_phases |-> frame.lunar_phases]
    /\ response' = IF request.op = "api_lunar_phase"
                   THEN ApiLunarPhaseReply(frame.lunar_phases)
                   ELSE DynamicMoonPhasesReply(frame.lunar_phases)
    /\ UNCHANGED request
    /\ UNCHANGED <<custom_events_file, workers>>

\* GET /api/lunar-phase?day=..&month=..&year=.. on the main.py copy; reading
\* is what the ephemeris has for that date.
ApiLunarPhaseMain ==
    /\ Idle
    /\ \E dt \in LunarDates, reading \in Readings :
          /\ request' = [op |-> "api_lunar_phase", server |-> "main",
                         day |-> dt.day, month |-> dt.month, year |-> dt.year,
                         reading |-> reading]
          /\ response' = get_dynamic_moon_phase_main(dt.day, dt.month, dt.year, reading)
    /\ UNCHANGED frame
    /\ UNCHANGED <<custom_events_file, workers>>

\* prev_new_moon = ephem.previous_new_moon(current_date), as an ordinal,
\* under an ephemeris that keeps the lunation: on the first pass the new
\* moon lies any count of days back; after that it is the one of the day
\* before (the count grows by one), or, when the count of the day before
\* was 28 or 29, a new moon of today or of yesterday (the count restarts at
\* 0 or 1).
previous_new_moon(fr) ==
    LET today == Ordinal(fr.current_date)
    IN  IF fr.lunar_phases = << >>
        THEN {today - days : days \in Counts}
        ELSE {fr.prev_new_moon}
                \cup (IF (today - 1) - fr.prev_new_moon \in {28, 29}
                      THEN {today, today - 1} ELSE {})

\* GET /lunar-phases?start_date=..&end_date=..: both dates given, the
\* endpoint returns calculate_lunar_phases(s, e).
GetLunarPhases ==
    /\ Idle
    /\ \E s \in LunarDates :
       \E e \in EndDates(s) :
          /\ request' = [op |-> "get_lunar_phases", start_date |-> s, end_date |-> e]
          /\ frame' = Call(s, e)
    /\ UNCHANGED response
    /\ UNCHANGED <<custom_events_file, workers>>

\* One pass of the while loop under the ephemeris that keeps the lunation;
\* the pass keeps prev_new_moon, the local the age is computed from.
LoopPassLunation ==
    /\ frame.pc = "loop"
    /\ LoopContinues(frame.current_date, frame.end_date)
    /\ \E prev_new_moon \in previous_new_moon(frame), illumination \in {0, MaxIllum} :
          LET days == Ordinal(frame.current_date) - prev_new_moon
          IN  frame' = [pc            |-> "loop",
                        current_date  |-> NextDay(frame.current_date),
                        end_date      |-> frame.end_date,
                        lunar_phases  |-> Append(frame.lunar_phases,
                                                 Sample(frame.current_date,
                                                        Reading(days, illumination))),
                        prev_new_moon |-> prev_new_moon]
    /\ UNCHANGED <<request, response>>
    /\ UNCHANGED <<custom_events_file, workers>>

NextLunation ==
    \/ GetLunarPhases
    \/ LoopPassLunation
    \/ LoopReturn
    \/ Respond

SpecLunation == Init /\ [][NextLunation]_vars

NextLunar ==
    \/ DynamicMoonPhases
    \/ ApiLunarPhaseProd
    \/ LoopPass
    \/ LoopReturn
    \/ ApiLunarPhaseMain
    \/ Respond

SpecLunar == Init /\ [][NextLunar]_vars

\* Any whole number of days, counts before the new moon among them.
WholeDays == (0 - MaxBack)..MaxCount

\* The age computation and the table lookup of one pass of the loop, on a
\* whole-day count.
ClassifyDays ==
    /\ Idle
    /\ \E days \in WholeDays :
          /\ request' = [op |-> "classify", days |-> days, moon_age |-> moon_age(days)]
          /\ response' = PhaseLookup(moon_age(days))
    /\ UNCHANGED frame
    /\ UNCHANGED <<custom_events_file, workers>>

\* The table lookup alone, on any age.
ClassifyAge ==
    /\ Idle
    /\ \E age \in 0..MaxAge :
          /\ request' = [op |-> "lookup", moon_age |-> age]
          /\ response' = PhaseLookup(age)
    /\ UNCHANGED frame
    /\ UNCHANGED <<custom_events_file, workers>>

NextPhaseTable == ClassifyDays \/ ClassifyAge \/ Respond

SpecPhaseTable == Init /\ [][NextPhaseTable]_vars

\* GET /zodiac?date=..: a divided table is asked about every day of a leap
\* year, any other table about the dates listed for it.
GetZodiacByDate ==
    /\ Idle
    /\ \E ask \in (AnyTables \X AnyQueries)
                    \cup (DividedTables \X DatesOf({LunarYear})) :
          /\ request' = [op |-> "get_zodiac_by_date",
                         date |-> isoformat(ask[2]), zodiac |-> ask[1]]
          /\ response' = get_zodiac_by_date(isoformat(ask[2]), ask[1])
    /\ UNCHANGED frame
    /\ UNCHANGED <<custom_events_file, workers>>

NextZodiac == GetZodiacByDate \/ Respond

SpecZodiac == Init /\ [][NextZodiac]_vars

\* GET /api/eclipse-events: events = estimate_eclipses(); return events.
\* The adapter gives the next full moon and the next new moon, neither
\* before now and one half a month after the other.
EclipseEvents ==
    /\ Idle
    /\ \E now \in Nows, wait \in Waits, nearer \in {"full", "new"} :
          LET next_full_moon ==
                  now + wait + (IF nearer = "full" THEN 0 ELSE HalfMonth)
              next_new_moon ==
                  now + wait + (IF nearer = "new" THEN 0 ELSE HalfMonth)
          IN  /\ request' = [op |-> "estimate_eclipses", now |-> now,
                             next_full_moon |-> next_full_moon,
                             next_new_moon |-> next_new_moon]
              /\ response' = [raised |-> "",
                              events |-> estimate_eclipses(next_full_moon,
                                                           next_new_moon)]
    /\ UNCHANGED frame
    /\ UNCHANGED <<custom_events_file, workers>>

NextEclipse == EclipseEvents \/ Respond

SpecEclipse == Init /\ [][NextEclipse]_vars

\* The lists calendar_data["full_moons"] may hold: none, one or two entries
\* dated on the dates lunar requests start from.
FullMoonLists ==
    {<< >>}
    \cup {<<NamedFullMoon(d, "Wolf Moon")>> : d \in LunarDates}
    \cup {<<NamedFullMoon(d, "Wolf Moon"), NamedFullMoon(e, "Snow Moon")>> :
             d \in LunarDates, e \in LunarDates}

\* A call of dates_match(date_str1, date_str2) while calendar_data holds the
\* list full_moons.
DatesMatch ==
    /\ Idle
    /\ \E d1 \in LunarDates, d2 \in LunarDates, full_moons \in FullMoonLists :
          /\ request' = [op |-> "dates_match",
                         date_str1 |-> isoformat(d1),
                         date_str2 |-> isoformat(d2),
                         full_moons |-> full_moons]
          /\ response' = dates_match(isoformat(d1), isoformat(d2))
    /\ UNCHANGED frame
    /\ UNCHANGED <<custom_events_file, workers>>

NextLinker == DatesMatch \/ Respond

SpecLinker == Init /\ [][NextLinker]_vars

\* ---------------------------------------- custom events, one call at a time
\* GET /custom-events
GetCustomEvents ==
    /\ Idle
    /\ LET events == _load_custom_events(custom_events_file)
       IN  /\ request' = [op |-> "get_custom_events"]
           /\ response' = [ok |-> TRUE, events |-> events]
           /\ frame' = [pc |-> "returned", loaded |-> events]
    /\ UNCHANGED <<custom_events_file, workers>>

\* POST /custom-events with the body evt; the activation keeps the list
\* _load_custom_events returned.
CreateCustomEvent ==
    /\ Idle
    /\ \E evt \in CustomEvents :
          LET events == _load_custom_events(custom_events_file)
              out    == create_custom_event(events, evt)
          IN  /\ request' = [op |-> "create_custom_event", evt |-> evt]
              /\ Len(out.events) <= MaxEvents
              /\ custom_events_file' = _save_custom_events(out.events)
              /\ response' = out.reply
              /\ frame' = [pc |-> "returned", loaded |-> events]
    /\ UNCHANGED workers

\* PUT /custom-events/{date} with the body evt
UpdateCustomEvent ==
    /\ Idle
    /\ \E date \in EventDates, evt \in CustomEvents :
          LET events == _load_custom_events(custom_events_file)
              out    == update_custom_event(events, date, evt)
          IN  /\ request' = [op |-> "update_custom_event", date |-> date, evt |-> evt]
              /\ Len(out.events) <= MaxEvents
              /\ custom_events_file' = _save_custom_events(out.events)
              /\ response' = out.reply
              /\ frame' = [pc |-> "returned", loaded |-> events]
    /\ UNCHANGED workers

\* DELETE /custom-events/{date}
DeleteCustomEvent ==
    /\ Idle
    /\ \E date \in EventDates :
          LET events == _load_custom_events(custom_events_file)
              out    == delete_custom_event(events, date)
          IN  /\ request' = [op |-> "delete_custom_event", date |-> date]
              /\ Len(out.events) <= MaxEvents
              /\ custom_events_file' = _save_custom_events(out.events)
              /\ response' = out.reply
              /\ frame' = [pc |-> "returned", loaded |-> events]
    /\ UNCHANGED workers

NextStore ==
    \/ GetCustomEvents
    \/ CreateCustomEvent
    \/ UpdateCustomEvent
    \/ DeleteCustomEvent
    \/ Respond

SpecStore == Init /\ [][NextStore]_vars

\* --------------------------------------- custom events, two calls at a time
\* Two POST /custom-events arrive together; the handlers are plain defs, so
\* each runs on a thread of the pool.
ConcurrentCreates ==
    /\ Idle
    /\ \E evts \in [Workers -> CustomEvents] :
          /\ request' = [op |-> "concurrent_creates", evts |-> evts]
          /\ workers' = [w \in Workers |-> [pc |-> "load", evt |-> evts[w]]]
    /\ UNCHANGED <<response, frame, custom_events_file>>

\* events = _load_custom_events(); the event of the same id is filtered
\* out and evt appended, in the thread's own list.
WorkerLoad(w) ==
    /\ workers[w].pc = "load"
    /\ workers' = [workers EXCEPT ![w] =
          [pc     |-> "save",
           evt    |-> workers[w].evt,
           events |-> create_custom_event(_load_custom_events(custom_events_file),
                                          workers[w].evt).events]]
    /\ UNCHANGED <<request, response, frame, custom_events_file>>

\* _save_custom_events: open(CUSTOM_EVENTS_FILE, "w") cuts the file to no
\* bytes; the dump stays in the writer's buffer until the file is closed.
WorkerOpen(w) ==
    /\ workers[w].pc = "save"
    /\ custom_events_file' = Truncated
    /\ workers' = [workers EXCEPT ![w] =
          [pc |-> "write", evt |-> workers[w].evt, events |-> workers[w].events,
           overlapped |-> FALSE]]
    /\ UNCHANGED <<request, response, frame>>

\* _save_custom_events: the with block ends and the dump is written from
\* offset 0.  When another thread wrote since this one opened the file, the
\* dump lies over the other's: it replaces it, or, being shorter, leaves
\* its tail.  The handler returns; the last one to return completes the
\* pair of responses.
WorkerClose(w) ==
    /\ workers[w].pc = "write"
    /\ \E file \in (IF workers[w].overlapped
                    THEN {Written(workers[w].events), Overwritten}
                    ELSE {Written(workers[w].events)}) :
          custom_events_file' = file
    /\ workers' = [v \in Workers |->
          IF v = w
          THEN [pc |-> "done", evt |-> workers[w].evt,
                reply |-> create_custom_event(<< >>, workers[w].evt).reply]
          ELSE IF workers[v].pc = "write"
          THEN [workers[v] EXCEPT !.overlapped = TRUE]
          ELSE workers[v]]
    /\ response' = IF \A v \in Workers \ {w} : workers[v].pc = "done"
                   THEN [ok |-> TRUE, completed |-> Workers]
                   ELSE response
    /\ UNCHANGED <<request, frame>>

NextWorkers ==
    \/ ConcurrentCreates
    \/ \E w \in Workers : WorkerLoad(w)
    \/ \E w \in Workers : WorkerOpen(w)
    \/ \E w \in Workers : WorkerClose(w)
    \/ Respond

SpecWorkers == Init /\ [][NextWorkers]_vars

\* ================================================================= claims
\* ------------------------------------------------------------------- C1
\* C1: Scheme B never takes the trailing fallback return: every date lies
\* inside at least one of the 14 declared ranges of its cycle year.
C1_FallbackNeverReached ==
    request.op = "_celtic_month_for" => response.via # "fallback"

\* ------------------------------------------------------------------- C2
\* C2: no date is contained in two of the declared ranges of its cycle year,
\* so the first day of each range is returned as day 1 of that range's month.
C2_RangesDisjoint ==
    request.op = "_celtic_month_for" =>
        LET ranges == Ranges(CycleOf(request.dt))
            hits   == Containing(request.dt)
        IN  /\ Cardinality(hits) <= 1
            /\ \A i \in hits :
                  request.dt = ranges[i].start =>
                      /\ response.month = ranges[i].name
                      /\ response.day = 1

\* ------------------------------------------------------------------- C3
\* C3: Dec 22 is Mirabilis day 1 in every year; Dec 23 is Mirabilis day 2
\* when its year is a leap year and is not Mirabilis when it is a common year.
C3_MirabilisLength ==
    (request.op = "_celtic_month_for" /\ request.dt.month = 12) =>
        LET dt == request.dt
        IN  /\ dt.day = 22 =>
                  (response.month = "Mirabilis" /\ response.day = 1)
            /\ (dt.day = 23 /\ _is_leap_year(dt.year)) =>
                  (response.month = "Mirabilis" /\ response.day = 2)
            /\ (dt.day = 23 /\ ~_is_leap_year(dt.year)) =>
                  response.month # "Mirabilis"

\* ------------------------------------------------------------------- C4
\* C4: Scheme A maps no Gregorian date to the sentinel {"Invalid Date", null}.
C4_NoInvalidDate ==
    request.op = "celtic_date_for_gregorian" => response.month # "Invalid Date"

\* ------------------------------------------------------------------- C5
\* C5: two distinct dates measured from the same cycle start never get the
\* same {month, day}.
C5_NoOverlap ==
    request.op = "celtic_date_for_gregorian" =>
        \A other \in DatesOf({request.dt.year - 1, request.dt.year,
                              request.dt.year + 1}) :
            (other # request.dt /\ CycleStart(other) = CycleStart(request.dt))
                => celtic_date_for_gregorian(other) # response

\* ------------------------------------------------------------------- C6
\* The date a sample's "date" string reads as.
FromIso(str) ==
    Date(str[1] * 1000 + str[2] * 100 + str[3] * 10 + str[4],
         str[6] * 10 + str[7],
         str[9] * 10 + str[10])

RangeServed == request.op = "dynamic_moon_phases" /\ Returned

\* C6: for start <= end the result has (end - start).days + 1 samples, and
\* the i-th sample is dated start + (i - 1) days: one per calendar day from
\* start to end, ascending, consecutive samples one day apart.
C6_OneSamplePerDay ==
    (RangeServed /\ DateLE(request.start_date, request.end_date)) =>
        LET phases == response.phases
        IN  /\ Len(phases) = Ordinal(request.end_date) - Ordinal(request.start_date) + 1
            /\ \A i \in 1..Len(phases) :
                  LET dt == FromIso(phases[i].date)
                  IN  /\ IsDate(dt.year, dt.month, dt.day)
                      /\ Ordinal(dt) = Ordinal(request.start_date) + i - 1

\* A range that runs over a month end has been answered with all its days.
C6_Witness ==
    /\ RangeServed
    /\ request.start_date.month # request.end_date.month
    /\ Ordinal(request.end_date) - Ordinal(request.start_date) = 2
    /\ Len(response.phases) = 3

C8_SingleEqualsRange ==
    (request.op = "api_lunar_phase" /\ Returned) =>
        IF request.server = "prod_server"
        THEN /\ Len(frame.lunar_phases) = 1
             /\ response.phase = frame.lunar_phases[1].phase
             /\ response.graphic = frame.lunar_phases[1].graphic
        ELSE LET only == Sample(Date(request.year, request.month, request.day),
                                request.reading)
             IN  /\ response.error = ""
                 /\ response.moon_phase = only.phase
                 /\ response.graphic = only.graphic

\* ------------------------------------------------------------------- C9
\* C9: the age computed from a whole-day count lies in exactly one row of
\* the phase table, and no two rows of the table share an age.
C9_ExactlyOneInterval ==
    request.op = "classify" =>
        /\ Cardinality(Matching(request.moon_age)) = 1
        /\ \A i, j \in 1..Len(phase_mapping) :
              i < j => phase_mapping[i].end <= phase_mapping[j].start

\* A count past the synodic month has been classified.
C9_Witness ==
    /\ request.op = "classify"
    /\ request.days = 30
    /\ request.moon_age = 47
    /\ response.phase_name = "New Moon"

\* ------------------------------------------------------------------ C10
\* The intervals as the claim lists them, in hundredths of a day.
C10_Intervals ==
    << <<0,    150,  "New Moon">>,
       <<150,  750,  "Waxing Crescent">>,
       <<750,  1050, "First Quarter">>,
       <<1050, 1350, "Waxing Gibbous">>,
       <<1350, 1650, "Full Moon">>,
       <<1650, 2150, "Waning Gibbous">>,
       <<2150, 2450, "Last Quarter">>,
       <<2450, 2953, "Waning Crescent">>,
       <<2953, 3050, "New Moon">> >>

C10_In(i, age) == C10_Intervals[i][1] <= age /\ age < C10_Intervals[i][2]

\* C10: the phase assigned to an age is the one of the first listed interval
\* [lo, hi) with lo <= age < hi, so a boundary age takes the phase of the
\* interval it opens.
C10_FirstIntervalWins ==
    request.op \in {"classify", "lookup"} =>
        \A i \in 1..Len(C10_Intervals) :
            (C10_In(i, request.moon_age)
                /\ \A j \in 1..(i - 1) : ~C10_In(j, request.moon_age))
            => response.phase_name = C10_Intervals[i][3]

\* The boundary age 13.5 has been looked up.
C10_Witness ==
    /\ request.op = "lookup"
    /\ request.moon_age = 1350
    /\ response.phase_name = "Full Moon"

\* ------------------------------------------------------------------ C11
PhaseNames ==
    {"New Moon", "Waxing Crescent", "First Quarter", "Waxing Gibbous",
     "Full Moon", "Waning Gibbous", "Last Quarter", "Waning Crescent"}

\* C11: whatever whole-day count is classified, 0, 30 and negative counts
\* included, the phase assigned is one of the eight named phases and never
\* "Unknown Phase" with its placeholder icon.
C11_NeverUnknownPhase ==
    request.op = "classify" =>
        /\ response.phase_name \in PhaseNames
        /\ response.phase_name # "Unknown Phase"
        /\ response.graphic # "U+2753"

\* A count before the new moon has been classified.
C11_Witness ==
    /\ request.op = "classify"
    /\ request.days = 0 - 1
    /\ request.moon_age = 2853
    /\ response.phase_name = "Waning Crescent"

\* ------------------------------------------------------------------ C12
\* The years whose cycle start lies among the dates mapped.
C12_Years == (MinYear + 1)..(MaxYear + 1)

\* C12: a date that is the cycle start of some year, the Monday on or after
\* Dec 21 that get_celtic_year_start returns, is mapped to Yule 1.
C12_CycleStartIsYule1 ==
    request.op = "celtic_date_for_gregorian" =>
        \A year \in C12_Years :
            Ordinal(request.dt) = get_celtic_year_start(year)
                => response = [month |-> "Yule", day |-> 1]

\* A cycle start that is not Dec 21 itself has been mapped: Dec 25 2000.
C12_Witness ==
    /\ request.op = "celtic_date_for_gregorian"
    /\ request.dt = Date(2000, 12, 25)
    /\ Ordinal(request.dt) = get_celtic_year_start(2001)
    /\ response = [month |-> "Yule", day |-> 1]

\* ------------------------------------------------------------------ C13
\* C13: a date of a common year that lies 364 days after the cycle start it
\* is measured from is mapped to Floating Day 1.
C13_FloatingDay ==
    (/\ request.op = "celtic_date_for_gregorian"
     /\ ~is_leap_year(request.dt.year)
     /\ Ordinal(request.dt) - CycleStart(request.dt) = 364)
        => response = [month |-> "Floating Day", day |-> 1]

\* Dec 20 2010, 364 days after the cycle start Dec 21 2009, has been mapped.
C13_Witness ==
    /\ request.op = "celtic_date_for_gregorian"
    /\ request.dt = Date(2010, 12, 20)
    /\ Ordinal(request.dt) - get_celtic_year_start(2010) = 364
    /\ response.month = "Floating Day"

\* ------------------------------------------------------------------ C14
\* C14: each of the 13 named ranges of the cycle year of the date spans 27 or
\* 28 days, and the day returned for a named month lies between 1 and 28.
C14_NamedMonthLength ==
    request.op = "_celtic_month_for" =>
        LET ranges == Ranges(CycleOf(request.dt))
        IN  /\ \A i \in 1..13 :
                  Ordinal(ranges[i].end) - Ordinal(ranges[i].start) + 1 \in {27, 28}
            /\ response.month # "Mirabilis" => response.day \in 1..28

\* ------------------------------------------------------------------ C15
ZodiacServed == request.op = "get_zodiac_by_date"

\* The month and day of a date string as one number: 1222 for Dec 22.
C15_Key(str) == str[6] * 1000 + str[7] * 100 + str[9] * 10 + str[10]

\* The containment test as the claim states it.
C15_Contains(sign, date) ==
    LET start == C15_Key(sign.start_date)
        end   == C15_Key(sign.end_date)
        md    == C15_Key(date)
    IN  IF start <= end
        THEN start <= md /\ md <= end
        ELSE md >= start \/ md <= end

C15_Hits == {i \in 1..Len(request.zodiac) :
                C15_Contains(request.zodiac[i], request.date)}

\* C15: a sign matches a date exactly when the claimed test holds of it (a
\* range with start <= end holds the days from start to end, a range with
\* start > end the days from start on and the days up to end), so the sign
\* returned is the first sign of the table for which the claimed test holds,
\* and no sign is returned when it holds of none.
C15_ContainmentTest ==
    ZodiacServed =>
        /\ \A i \in 1..Len(request.zodiac) :
              SignMatches(request.zodiac[i], MonthDay(fromisoformat(request.date)))
                  <=> (i \in C15_Hits)
        /\ IF C15_Hits = {}
           THEN response.returned # "dict"
           ELSE /\ response.returned = "dict"
                /\ \E i \in C15_Hits :
                      /\ \A j \in C15_Hits : i <= j
                      /\ response.zodiac_sign = request.zodiac[i].name

\* The range from Dec 22 to Jan 19 has been asked about Jan 10 and matched.
C15_Witness ==
    /\ ZodiacServed
    /\ Len(request.zodiac) = 1
    /\ C15_Key(request.zodiac[1].start_date) = 1222
    /\ C15_Key(request.zodiac[1].end_date) = 119
    /\ C15_Key(request.date) = 110
    /\ response.returned = "dict"
    /\ response.zodiac_sign = request.zodiac[1].name

\* ------------------------------------------------------------------ C16
\* The year the dates of a table are written in.
C16_TableYear(zodiac) == fromisoformat(zodiac[1].start_date).year

\* The number of days of the year y that a sign's range holds.
C16_Length(sign, y) ==
    LET start == fromisoformat(sign.start_date)
        end   == fromisoformat(sign.end_date)
        s     == Ordinal(Date(y, start.month, start.day))
        e     == Ordinal(Date(y, end.month, end.day))
    IN  IF s <= e
        THEN e - s + 1
        ELSE (Ordinal(Date(y, 12, 31)) - s + 1) + (e - Ordinal(Date(y, 1, 1)) + 1)

RECURSIVE C16_TotalLength(_, _, _)
C16_TotalLength(zodiac, y, n) ==
    IF n = 0 THEN 0
    ELSE C16_Length(zodiac[n], y) + C16_TotalLength(zodiac, y, n - 1)

\* The ranges of the table are non-overlapping and contiguous over its year:
\* the day after the end of each range is the start of a range, no two
\* ranges start on the same day and together they hold each day once.
C16_Divides(zodiac) ==
    LET y == C16_TableYear(zodiac)
        n == Len(zodiac)
    IN  /\ \A i \in 1..n :
              /\ fromisoformat(zodiac[i].start_date).year = y
              /\ IsDate(y, fromisoformat(zodiac[i].end_date).month,
                           fromisoformat(zodiac[i].end_date).day)
        /\ \A i, j \in 1..n :
              i # j => zodiac[i].start_date # zodiac[j].start_date
        /\ \A i \in 1..n : \E j \in 1..n :
              LET end  == fromisoformat(zodiac[i].end_date)
                  next == IF end.month = 12 /\ end.day = 31
                          THEN <<1, 1>>
                          ELSE MonthDay(NextDay(Date(y, end.month, end.day)))
              IN  MonthDay(fromisoformat(zodiac[j].start_date)) = next
        /\ C16_TotalLength(zodiac, y, n) = Ordinal(Date(y, 12, 31)) - Ordinal(Date(y, 1, 1)) + 1

\* The signs whose containment test is true of the date asked about.
C16_Matching ==
    {i \in 1..Len(request.zodiac) :
        SignMatches(request.zodiac[i], MonthDay(fromisoformat(request.date)))}

C16_ReturnsTheOne ==
    /\ Cardinality(C16_Matching) = 1
    /\ response.returned = "dict"
    /\ \A i \in C16_Matching : response.zodiac_sign = request.zodiac[i].name

\* C16 as claimed: when the ranges of the table divide the year, exactly one
\* sign's test is true of any date, Feb 29 included, and that sign is returned.
C16_ExactlyOneSign ==
    (ZodiacServed /\ C16_Divides(request.zodiac)) => C16_ReturnsTheOne

\* Feb 29 falls between two ranges: one ends on Feb 28, one starts on Mar 1.
C16_LeapDayBetween ==
    /\ C15_Key(request.date) = 229
    /\ \E i \in 1..Len(request.zodiac) :
          C15_Key(request.zodiac[i].end_date) = 228
    /\ \E i \in 1..Len(request.zodiac) :
          C15_Key(request.zodiac[i].start_date) = 301

\* C16 as amended: when the ranges of the table divide the year, exactly one
\* sign's test is true of any date and that sign is returned, except Feb 29
\* when a range ends on Feb 28 and a range starts on Mar 1: then no sign's
\* test is true of Feb 29 and no sign is returned.
C16_ExactlyOneSignButLeapDay ==
    (ZodiacServed /\ C16_Divides(request.zodiac)) =>
        IF C16_LeapDayBetween
        THEN C16_Matching = {} /\ response = ZodiacNone
        ELSE C16_ReturnsTheOne

\* A table of three signs that divides a leap year has been asked about
\* Feb 29 and has returned the sign whose range holds it.
C16_Witness ==
    /\ ZodiacServed
    /\ C16_Divides(request.zodiac)
    /\ Len(request.zodiac) = 3
    /\ C15_Key(request.date) = 229
    /\ \E i \in 1..3 : C15_Key(request.zodiac[i].end_date) = 229
    /\ response.returned = "dict"

\* ------------------------------------------------------------------ C17
\* C17: when no sign's range holds the date asked about, the handler raises
\* nothing and returns the empty result None.
C17_NoMatchIsNone ==
    (ZodiacServed /\ C15_Hits = {}) =>
        (response.raised = "" /\ response.returned = "None")

\* A table of two signs has been asked about a date neither holds.
C17_Witness ==
    /\ ZodiacServed
    /\ Len(request.zodiac) = 2
    /\ C15_Hits = {}
    /\ C15_Key(request.date) = 1221
    /\ response = ZodiacNone

\* ------------------------------------------------------------------ C18
\* The instant a marker's date string reads as.
C18_Instant(str) ==
    (Ordinal(FromIso(str)) - Ordinal(Date(LunarYear, 12, 31))) * TicksPerDay
    + ((str[12] * 10 + str[13]) * 3600
       + (str[15] * 10 + str[16]) * 60
       + (str[18] * 10 + str[19])) * TicksPerSecond

EclipsesServed == request.op = "estimate_eclipses"

C18_TwoMarkers ==
    /\ Len(response.events) = 2
    /\ response.events[1].type = "lunar-eclipse"
    /\ response.events[2].type = "solar-eclipse"

\* C18 as claimed: exactly two markers are returned and the date of each is
\* not earlier than now.
C18_TwoMarkersNotBeforeNow ==
    EclipsesServed =>
        /\ C18_TwoMarkers
        /\ \A i \in 1..Len(response.events) :
              C18_Instant(response.events[i].date) >= request.now

\* C18 as amended: exactly two markers are returned; the date of each is the
\* adapter's instant with the fraction of its second dropped, so it is not
\* earlier than now with the fraction of its second dropped and less than a
\* second earlier than now.
C18_TwoMarkersNotBeforeNowsSecond ==
    EclipsesServed =>
        /\ C18_TwoMarkers
        /\ C18_Instant(response.events[1].date)
              = request.next_full_moon - (request.next_full_moon % TicksPerSecond)
        /\ C18_Instant(response.events[2].date)
              = request.next_new_moon - (request.next_new_moon % TicksPerSecond)
        /\ \A i \in 1..Len(response.events) :
              /\ C18_Instant(response.events[i].date)
                    >= request.now - (request.now % TicksPerSecond)
              /\ C18_Instant(response.events[i].date)
                    > request.now - TicksPerSecond

\* The markers of a full moon that comes in the second now lies in, after
\* midnight of the year's last day, have been returned.
C18_Witness ==
    /\ EclipsesServed
    /\ request.now % TicksPerSecond # 0
    /\ request.next_full_moon > request.now
    /\ request.next_full_moon \div TicksPerSecond = request.now \div TicksPerSecond
    /\ request.now >= TicksPerDay
    /\ Len(response.events) = 2
    /\ FromIso(response.events[1].date) = Date(LunarYear + 1, 1, 1)

\* ------------------------------------------------------------------ C19
LinkerCalled == request.op = "dates_match"

\* The entries of the named-full-moon list on the calendar day of a sample.
C19_SameDay(sample) ==
    {k \in 1..Len(request.full_moons) :
        FromIso(request.full_moons[k].date) = FromIso(sample.date)}

\* C19: the linker hands back the annotated samples, and every Full Moon
\* sample with an entry of the named-full-moon list on its calendar day
\* carries moonName, description and poem of the first such entry.
C19_NamedFullMoonAttached ==
    LinkerCalled =>
        /\ response.raised = ""
        /\ \A i \in 1..Len(response.phases) :
              LET sample == response.phases[i]
                  same   == C19_SameDay(sample)
              IN  (sample.phase = "Full Moon" /\ same # {}) =>
                      \E k \in same :
                          /\ \A j \in same : k <= j
                          /\ sample.moonName = request.full_moons[k].name
                          /\ sample.description = request.full_moons[k].description
                          /\ sample.poem = request.full_moons[k].poem

\* ------------------------------------------------------------------ C20
\* The six poems of the fallback pool.
C20_FallbackPoems ==
    {"The moon glows gently this month, unnamed yet full of secrets.",
     "A nameless moon rises, wrapped in silver mystery.",
     "No name graces this full moon, yet it hums with quiet magic.",
     "This moon wears no title, only a cloak of shimmering wonder.",
     "A soft and silent full moon drifts through the veil, untethered by name.",
     "The full moon of this month remains unnamed, like a forgotten spell in the night sky."}

\* C20: the linker hands back the annotated samples; every Full Moon sample
\* with no same-day entry in the named-full-moon list has moonName "Full
\* Moon" and a poem of the six-poem fallback pool, and every other sample
\* that is not a Full Moon has moonName null.
C20_UnnamedFullMoonFallback ==
    LinkerCalled =>
        /\ response.raised = ""
        /\ \A i \in 1..Len(response.phases) :
              LET sample == response.phases[i]
              IN  /\ (sample.phase = "Full Moon" /\ C19_SameDay(sample) = {}) =>
                        /\ sample.moonName = "Full Moon"
                        /\ sample.poem \in C20_FallbackPoems
                  /\ sample.phase # "Full Moon" => sample.moonName = "None"

\* ------------------------------------------------------------------ C21
CelticAServed == request.op = "celtic_date_for_gregorian"

\* C21: the cycle start of the year of the date mapped, and of the year
\* after it, is a Monday, lies between Dec 21 and Dec 27 of the year before
\* with no Monday between Dec 21 and it, and is Dec 21 when Dec 21 is a Monday.
C21_EarliestMonday ==
    CelticAServed =>
        \A year \in {request.dt.year, request.dt.year + 1} :
            LET start == get_celtic_year_start(year)
                dec21 == Ordinal(Date(year - 1, 12, 21))
                dec27 == Ordinal(Date(year - 1, 12, 27))
            IN  /\ Weekday(start) = 0
                /\ dec21 <= start /\ start <= dec27
                /\ \A ord \in dec21..(start - 1) : Weekday(ord) # 0
                /\ Weekday(dec21) = 0 => start = dec21

\* A date of 2010 has been mapped: Dec 21 2009 is a Monday and is the start.
C21_Witness ==
    /\ CelticAServed
    /\ request.dt = Date(2010, 1, 1)
    /\ Weekday(Ordinal(Date(2009, 12, 21))) = 0
    /\ get_celtic_year_start(2010) = Ordinal(Date(2009, 12, 21))
    /\ response = [month |-> "Yule", day |-> 12]

\* ------------------------------------------------------------------ C22
\* The month list as the claim gives it.
C22_List ==
    << "Yule", "Janus", "Brigid", "Flora", "Maya", "Juno",
       "Solis", "Terra", "Lugh", "Pomona", "Autumma", "Frost", "Aether" >>

\* C22: with d the days from the cycle start to the date, d = 8 in a leap
\* Gregorian year gives Leap Day 1, d = 364 gives Floating Day 1, and any
\* other d from 0 to 363 gives the month d div 28 of the list and the day
\* (d mod 28) + 1, which lies in 1..28.
C22_SpecialDaysFirst ==
    CelticAServed =>
        LET d == Ordinal(request.dt) - CycleStart(request.dt)
        IN  /\ (d = 8 /\ is_leap_year(request.dt.year)) =>
                  response = [month |-> "Leap Day", day |-> 1]
            /\ d = 364 => response = [month |-> "Floating Day", day |-> 1]
            /\ (d >= 0 /\ d < 364 /\ ~(d = 8 /\ is_leap_year(request.dt.year))) =>
                  /\ response.month = C22_List[(d \div 28) + 1]
                  /\ response.day = (d % 28) + 1
                  /\ response.day \in 1..28

\* Jan 2 2024, eight days after the cycle start Dec 25 2023, has been mapped.
C22_Witness ==
    /\ CelticAServed
    /\ request.dt = Date(2024, 1, 2)
    /\ Ordinal(request.dt) - CycleStart(request.dt) = 8
    /\ response = [month |-> "Leap Day", day |-> 1]

\* ------------------------------------------------------------------ C23
\* C23: the mapper raises for no date; when the month index it computes is
\* 13 or more it returns the sentinel, and otherwise the index it reads the
\* month list with lies in 0..12.
C23_NeverRaises ==
    CelticAServed =>
        LET d           == Ordinal(request.dt) - CycleStart(request.dt)
            month_index == d \div 28
            special     == (d = 8 /\ is_leap_year(request.dt.year)) \/ d = 364
        IN  /\ response.month # "IndexError"
            /\ ~special =>
                  IF month_index >= 13
                  THEN response = [month |-> "Invalid Date", day |-> 0]
                  ELSE month_index \in 0..12

\* ------------------------------------------------------------------ C24
\* C24: the sign returned is the earliest declared sign whose containment
\* test is true of the date: of two signs that both hold it, the one
\* declared earlier is returned.
C24_FirstMatchWins ==
    ZodiacServed =>
        \A i \in C16_Matching :
            /\ response.returned = "dict"
            /\ \A j \in C16_Matching :
                  response.zodiac_sign = request.zodiac[j].name => j <= i

\* Two signs of a table both hold the date; the first is returned.
C24_Witness ==
    /\ ZodiacServed
    /\ Len(request.zodiac) = 2
    /\ C16_Matching = {1, 2}
    /\ request.zodiac[1].name # request.zodiac[2].name
    /\ response.returned = "dict"
    /\ response.zodiac_sign = request.zodiac[1].name

\* ------------------------------------------------------------------ C26
\* C26: the cycle start the rollover rule selects is on or before the date:
\* the days since the start are never negative and the month list is never
\* read with a negative index.
C26_StartNotAfterDate ==
    CelticAServed =>
        LET d == Ordinal(request.dt) - CycleStart(request.dt)
        IN  /\ CycleStart(request.dt) <= Ordinal(request.dt)
            /\ d >= 0
            /\ d \div 28 >= 0

\* ------------------------------------------------------------------ C29
\* C29: the main.py copy answers every date and every illumination with a
\* phase name and a graphic, never with an error object: the icon index
\* illumination // 3.7 is within the eight icons.
C29_NeverErrorObject ==
    (request.op = "api_lunar_phase" /\ request.server = "main" /\ Returned) =>
        /\ request.reading.illumination \div 37 < Len(moon_icons)
        /\ response.error = ""
        /\ response.moon_phase \in {"New Moon", "First Quarter", "Full Moon", "Last Quarter"}
        /\ Len(response.graphic) = 1

\* ------------------------------------------------------------------ C30
\* The cycle of the phases.
C30_Cycle ==
    << "New Moon", "Waxing Crescent", "First Quarter", "Waxing Gibbous",
       "Full Moon", "Waning Gibbous", "Last Quarter", "Waning Crescent" >>

C30_Phases == {C30_Cycle[i] : i \in 1..Len(C30_Cycle)}

C30_Position(phase) == CHOOSE i \in 1..Len(C30_Cycle) : C30_Cycle[i] = phase

C30_Follows(before, after) ==
    /\ before \in C30_Phases
    /\ after \in C30_Phases
    /\ \/ after = before
       \/ C30_Position(after) = (C30_Position(before) % Len(C30_Cycle)) + 1

\* C30: under an ephemeris that keeps the lunation, each sample of a range
\* of consecutive days has the phase of the day before or the next phase of
\* the cycle, while the list is built and in the list returned.
C30_PhasesInOrder ==
    request.op = "get_lunar_phases" =>
        /\ \A i \in 2..Len(frame.lunar_phases) :
              C30_Follows(frame.lunar_phases[i - 1].phase, frame.lunar_phases[i].phase)
        /\ Returned => response.phases = frame.lunar_phases

\* A three-day range over a new moon has been answered.
C30_Witness ==
    /\ request.op = "get_lunar_phases"
    /\ Returned
    /\ Len(response.phases) = 3
    /\ response.phases[1].phase = "Waning Crescent"
    /\ response.phases[2].phase = "New Moon"
    /\ response.phases[3].phase = "New Moon"

\* ------------------------------------------------------------------ C25
StoreCreated == request.op = "create_custom_event" /\ Returned

C25_Others(events, id) == SelectSeq(events, LAMBDA e : e.id # id)

\* C25: after create_custom_event(evt) the store holds exactly one event
\* with the id of evt, that event is evt, and the events of other ids are
\* the ones the store held before, in the order they had.
C25_ReplacesSameId ==
    StoreCreated =>
        LET evt    == request.evt
            before == frame.loaded
            after  == _load_custom_events(custom_events_file)
        IN  /\ Cardinality({i \in 1..Len(after) : after[i].id = evt.id}) = 1
            /\ \A i \in 1..Len(after) : after[i].id = evt.id => after[i] = evt
            /\ C25_Others(after, evt.id) = C25_Others(before, evt.id)
            /\ response = [ok |-> TRUE, saved |-> evt.id]

\* An event has been created over an older one of its id that stood before
\* an event of another id.
C25_Witness ==
    /\ StoreCreated
    /\ Len(frame.loaded) = 2
    /\ frame.loaded[1].id = request.evt.id
    /\ frame.loaded[1] # request.evt
    /\ frame.loaded[2].id # request.evt.id
    /\ custom_events_file = Written(<<frame.loaded[2], request.evt>>)

\* ------------------------------------------------------------------ C27
\* C27: from an empty store, after any sequence of create, update and
\* delete calls no two stored events have the same id.
C27_UniqueIds ==
    LET events == _load_custom_events(custom_events_file)
    IN  \A i, j \in 1..Len(events) : events[i].id = events[j].id => i = j

\* ------------------------------------------------------------------ C28
\* C28: once two concurrent create_custom_event requests with different
\* ids have both completed, both events are in the store.
C28_NoLostUpdate ==
    (request.op = "concurrent_creates" /\ Returned) =>
        LET events == _load_custom_events(custom_events_file)
        IN  (\A v, w \in Workers : v # w => request.evts[v].id # request.evts[w].id) =>
                \A w \in Workers :
                    \E i \in 1..Len(events) : events[i] = request.evts[w]

====
